---------------------------- MODULE Spec2Model ----------------------------
(***************************************************************************)
(* lirc2hass: bridge from the LIRC socket to Home Assistant.               *)
(* State machine of main_loop (the supervisor), of LircClient (source      *)
(* socket and debounce), and of the two upstream clients HaRestLircClient  *)
(* and HaWsLircClient.  Times are integers in milliseconds.                *)
(***************************************************************************)
EXTENDS Integers, Sequences, FiniteSets, TLC

\* ------------------------------------------------------------ bounds
MaxCeiling == 2       \* max_reconnect_delay is drawn from 1..MaxCeiling (seconds)
MaxRetry == 2         \* failed attempts are allowed while a retry counter is below this
MaxReads == 2         \* non-empty reads delivered by the LIRC socket
MaxElapsed == 2240    \* the clock runs from StartTime to StartTime + MaxElapsed
StartTime == 1000000  \* time.time() at process start, in ms since the epoch

\* ------------------------------------------------- program constants
DEF_MIN_REPEAT_TIME_MS == 740
DEF_TIMEOUT == 2000   \* DEF_TIMEOUT = 2 seconds
None == 0             \* Python None for handles and ids

TimeSteps == {500, 740}         \* amounts by which the clock advances
JitterDraws == {0, 500, 1000}   \* draws of random.randint(0, 1000)

\* --------------------------------------------------------- utilities
Min(a, b) == IF a < b THEN a ELSE b

RECURSIVE Pow2(_)
Pow2(n) == IF n = 0 THEN 1 ELSE 2 * Pow2(n - 1)

\* the lowest handle number not in use (as the OS hands out descriptors)
NewHandle(open) == CHOOSE h \in 1..(Cardinality(open) + 1) :
                      /\ h \notin open
                      /\ \A g \in 1..(h - 1) : g \in open

\* ----------------------------------------------------- get_backoff_delay
\* round(min(delay_max, 2**retry_count) - randint(0, 1000) / 1000, 3), in ms
get_backoff_delay_nomin(retry_count, delay_max, jitter) ==
    1000 * Pow2(retry_count) - jitter

get_backoff_delay(retry_count, delay_max, jitter) ==
    Min(1000 * delay_max, 1000 * Pow2(retry_count)) - jitter

\* ------------------------------------------------------------ frames
\* A read from the socket is a sequence of characters.
FPress == <<"0", "0", " ", "0", " ", "P", " ", "a", " ", "r", "\n">>
FRepeat == <<"0", "0", " ", "1", " ", "P", " ", "a", " ", "r", "\n">>
FTwo == FPress \o FRepeat
FShort == <<"0", "0">>
Frames == {FPress, FRepeat, FTwo, FShort}

\* str(event) of a bytes object: b'...' with the newline escaped
RECURSIVE Escape(_)
Escape(s) == IF s = <<>> THEN <<>>
             ELSE (IF Head(s) = "\n" THEN <<"\\", "n">> ELSE <<Head(s)>>)
                  \o Escape(Tail(s))

Str(event_bytes) == <<"b", "'">> \o Escape(event_bytes) \o <<"'">>

\* s.split(" ", maxsplit)
RECURSIVE Split(_, _)
Split(s, maxsplit) ==
    IF maxsplit = 0 \/ ~(\E i \in 1..Len(s) : s[i] = " ") THEN <<s>>
    ELSE LET i == CHOOSE k \in 1..Len(s) :
                     s[k] = " " /\ \A l \in 1..(k - 1) : s[l] # " "
         IN <<SubSeq(s, 1, i - 1)>> \o Split(SubSeq(s, i + 1, Len(s)), maxsplit - 1)

\* event_info = str(event).split(" ", 4); Python indexes from 0
event_info(event_bytes) == Split(Str(event_bytes), 4)

\* event_info[1] and event_info[2] exist (no IndexError)
Parses(event_bytes) == Len(event_info(event_bytes)) >= 3

repeat_flag(event_bytes) == event_info(event_bytes)[2] # <<"0">>

lirc_key(event_bytes) == event_info(event_bytes)[3]


\* ------------------------------------------------------------- state
VARIABLES
    use_ws,                 \* args["use_ws"]: the streaming (websocket) client is used
    max_reconnect_delay,    \* args["max_reconnect_delay"], seconds
    pc,                     \* where main_loop is
    exit_code,              \* the code main() exits with, -1 while running
    lirc_connected,         \* main_loop local
    lirc_retry,             \* main_loop local
    api_retry,              \* main_loop local
    delay,                  \* lirc_delay / api_delay of the sleep in progress, ms
    api_connected,          \* LircClient.api_connected
    _lirc_sock,             \* LircClient._lirc_sock, None or a socket handle
    _last_event_timestamp,  \* LircClient._last_event_timestamp, ms
    rest_session,           \* HaRestLircClient.rest_session
    ws,                     \* HaWsLircClient.ws
    ws_next_id,             \* HaWsLircClient.ws_next_id
    msg_id,                 \* ws_send_msg local: id of the fire_event awaiting its result
    event,                  \* event_loop local: the last read
    now,                    \* the wall clock, ms
    recvStart,              \* when the ws.recv(timeout) in progress was called
    waitStart,              \* when the fire_event awaiting its result was sent
    sockOpen,               \* the open LIRC sockets
    restOpen,               \* the open requests sessions
    wsOpen,                 \* the open websocket connections
    nread,                  \* non-empty reads so far
    nsent,                  \* calls of send_upstream_event so far
    last_sent,              \* the last message handed to the upstream transport
    event_log,              \* the last "firing event: %s (+%dms)" log record
    authReply,              \* type of the message read after auth in this session
    raised,                 \* the exception that last left start_event_loop or main_loop
    connect_log,            \* level of the last log record of the connect branch
    api_fails,              \* APIErrors since the last reply of the hub that was a success
    ndecided                \* frames send_event has fired or ignored so far

vars == <<use_ws, max_reconnect_delay, pc, exit_code, lirc_connected, lirc_retry,
          api_retry, delay, api_connected, _lirc_sock, _last_event_timestamp,
          rest_session, ws, ws_next_id, msg_id, event, now, recvStart, waitStart,
          sockOpen, restOpen, wsOpen, nread, nsent, last_sent, event_log, authReply,
          raised, connect_log, api_fails, ndecided>>

config == <<use_ws, max_reconnect_delay>>
\* what the except clauses of main_loop and the exit of main() decide
supervisor == <<pc, exit_code, lirc_connected, lirc_retry, api_retry, delay,
                api_connected, _lirc_sock, sockOpen>>
sessions == <<rest_session, ws, restOpen, wsOpen>>
wait == <<msg_id, recvStart, waitStart>>
history == <<nread, nsent, last_sent, event_log, event>>

WsTypes == {"auth_required", "auth_ok", "auth_invalid", "result", "event"}
\* messages the server may send: {type, id?}
WsMsgs == [type : WsTypes, id : 0..(MaxReads + 1)]

NoMsg == [type |-> "none", id |-> None, key |-> <<>>]
NoLog == [key |-> <<>>, delta |-> -1]

\* the states in which start_event_loop is running (inside its with block)
InSession == {"ws_auth_required", "ws_auth_reply", "get_event", "rest_post", "ws_wait"}
\* the states in which a ws.recv(timeout=DEF_TIMEOUT) is in progress
InWsRecv == {"ws_auth_required", "ws_auth_reply", "ws_wait"}
Blocking == InSession \cup {"lirc_sleep", "api_sleep"}

Init ==
    /\ use_ws \in BOOLEAN
    /\ max_reconnect_delay \in 1..MaxCeiling
    /\ pc = "top"
    /\ exit_code = -1
    /\ lirc_connected = FALSE
    /\ lirc_retry = 0
    /\ api_retry = 0
    /\ delay = 0
    /\ api_connected = FALSE
    /\ _lirc_sock = None
    /\ _last_event_timestamp = 0
    /\ rest_session = None
    /\ ws = None
    /\ ws_next_id = 1
    /\ msg_id = None
    /\ event = <<>>
    /\ now = StartTime
    /\ recvStart = 0
    /\ waitStart = 0
    /\ sockOpen = {}
    /\ restOpen = {}
    /\ wsOpen = {}
    /\ nread = 0
    /\ nsent = 0
    /\ last_sent = NoMsg
    /\ event_log = NoLog
    /\ authReply = "none"
    /\ raised = "none"
    /\ connect_log = "none"
    /\ api_fails = 0
    /\ ndecided = 0

\* --------------------------------------------- LircClient.connect/disconnect
connect ==
    IF _lirc_sock = None
    THEN LET sock == NewHandle(sockOpen)
         IN /\ _lirc_sock' = sock
            /\ sockOpen' = sockOpen \cup {sock}
    ELSE UNCHANGED <<_lirc_sock, sockOpen>>

disconnect ==
    IF _lirc_sock # None
    THEN /\ sockOpen' = sockOpen \ {_lirc_sock}
         /\ _lirc_sock' = None
    ELSE UNCHANGED <<_lirc_sock, sockOpen>>

\* ------------------------------------------ the except clauses of main_loop
\* except LircDisconnected (lines 332-334), then the next iteration
ExceptLircDisconnected_resets ==
    /\ lirc_connected' = FALSE
    /\ disconnect
    /\ api_retry' = 0
    /\ pc' = "top"
    /\ UNCHANGED <<exit_code, lirc_retry, delay, api_connected>>

ExceptLircDisconnected_keeps_flag ==
    /\ disconnect
    /\ pc' = "top"
    /\ UNCHANGED <<exit_code, lirc_connected, lirc_retry, api_retry, delay,
                   api_connected>>

ExceptLircDisconnected ==
    /\ lirc_connected' = FALSE
    /\ disconnect
    /\ pc' = "top"
    /\ UNCHANGED <<exit_code, lirc_retry, api_retry, delay, api_connected>>

\* except APIError (lines 335-341), up to the sleep
ExceptAPIError_disconnects(jitter) ==
    /\ api_retry' = IF api_connected THEN 0 ELSE api_retry
    /\ api_connected' = FALSE
    /\ delay' = get_backoff_delay(api_retry', max_reconnect_delay, jitter)
    /\ lirc_connected' = FALSE
    /\ disconnect
    /\ pc' = "api_sleep"
    /\ UNCHANGED <<exit_code, lirc_retry>>

ExceptAPIError(jitter) ==
    /\ api_retry' = IF api_connected THEN 0 ELSE api_retry
    /\ api_connected' = FALSE
    /\ delay' = get_backoff_delay(api_retry', max_reconnect_delay, jitter)
    /\ pc' = "api_sleep"
    /\ UNCHANGED <<exit_code, lirc_connected, lirc_retry, _lirc_sock, sockOpen>>

\* except Exception (lines 344-346): disconnect and re-raise; main() exits
ExceptException_keeps_socket(code) ==
    /\ pc' = "terminated"
    /\ exit_code' = code
    /\ UNCHANGED <<lirc_connected, lirc_retry, api_retry, delay, api_connected,
                   _lirc_sock, sockOpen>>

ExceptException(code) ==
    /\ disconnect
    /\ pc' = "terminated"
    /\ exit_code' = code
    /\ UNCHANGED <<lirc_connected, lirc_retry, api_retry, delay, api_connected>>

\* an exception that no clause of main_loop catches, or raised outside the try
Uncaught(code) ==
    /\ pc' = "terminated"
    /\ exit_code' = code
    /\ UNCHANGED <<lirc_connected, lirc_retry, api_retry, delay, api_connected,
                   _lirc_sock, sockOpen>>

\* leaving the with block of start_event_loop by an exception
WithExit_leaks ==
    UNCHANGED sessions

WithExit ==
    /\ wsOpen' = IF use_ws THEN wsOpen \ {ws} ELSE wsOpen
    /\ restOpen' = IF use_ws THEN restOpen ELSE restOpen \ {rest_session}
    /\ UNCHANGED <<rest_session, ws>>

\* the wait in progress ends
NoWait ==
    /\ msg_id' = None
    /\ recvStart' = 0
    /\ waitStart' = 0

\* an APIError may be raised (the retry counter is capped)
MayFailApi == api_connected \/ api_retry < MaxRetry


\* ------------------------------------------------------- main_loop, connect
\* lines 313-317: lirc_client.connect() succeeds
ConnectOk ==
    /\ pc = "top"
    /\ ~lirc_connected
    /\ connect
    /\ lirc_connected' = TRUE
    /\ lirc_retry' = 0
    /\ pc' = "start"
    /\ UNCHANGED <<exit_code, api_retry, delay, api_connected>>
    /\ UNCHANGED <<config, _last_event_timestamp, sessions, ws_next_id, wait, now,
                   history, authReply>>
    /\ connect_log' = "info"
    /\ UNCHANGED <<raised, api_fails, ndecided>>

\* lines 318-325: sock.connect raises OSError; the backoff sleep starts
ConnectFail(jitter) ==
    /\ pc = "top"
    /\ ~lirc_connected
    /\ _lirc_sock = None
    /\ lirc_retry < MaxRetry
    /\ delay' = get_backoff_delay(lirc_retry, max_reconnect_delay, jitter)
    /\ pc' = "lirc_sleep"
    /\ UNCHANGED <<exit_code, lirc_connected, lirc_retry, api_retry, api_connected,
                   _lirc_sock, sockOpen>>
    /\ UNCHANGED <<config, _last_event_timestamp, sessions, ws_next_id, wait, now,
                   history, authReply>>
    /\ connect_log' = IF lirc_retry = 0 THEN "error" ELSE "debug"
    /\ UNCHANGED <<raised, api_fails, ndecided>>

\* lines 325-327: the sleep ends, lirc_retry += 1, continue
LircSleepDone_noincrement ==
    /\ pc = "lirc_sleep"
    /\ delay' = 0
    /\ pc' = "top"
    /\ UNCHANGED <<exit_code, lirc_connected, lirc_retry, api_retry, api_connected,
                   _lirc_sock, sockOpen>>
    /\ UNCHANGED <<config, _last_event_timestamp, sessions, ws_next_id, wait, now,
                   history, authReply>>
    /\ UNCHANGED <<raised, connect_log, api_fails, ndecided>>

LircSleepDone ==
    /\ pc = "lirc_sleep"
    /\ lirc_retry' = lirc_retry + 1
    /\ delay' = 0
    /\ pc' = "top"
    /\ UNCHANGED <<exit_code, lirc_connected, api_retry, api_connected, _lirc_sock,
                   sockOpen>>
    /\ UNCHANGED <<config, _last_event_timestamp, sessions, ws_next_id, wait, now,
                   history, authReply>>
    /\ UNCHANGED <<raised, connect_log, api_fails, ndecided>>

\* ------------------------------------------------------- start_event_loop
AtStart == pc = "start" \/ (pc = "top" /\ lirc_connected)

\* HaRestLircClient.start_event_loop: with requests.Session() as req
RestStartEventLoop ==
    /\ AtStart
    /\ ~use_ws
    /\ LET req == NewHandle(restOpen)
       IN /\ rest_session' = req
          /\ restOpen' = restOpen \cup {req}
    /\ api_connected' = TRUE
    /\ pc' = "get_event"
    /\ UNCHANGED <<exit_code, lirc_connected, lirc_retry, api_retry, delay,
                   _lirc_sock, sockOpen>>
    /\ UNCHANGED <<config, _last_event_timestamp, ws, wsOpen, ws_next_id, wait, now,
                   history, authReply>>
    /\ raised' = "none"
    /\ UNCHANGED <<connect_log, api_fails, ndecided>>

\* HaWsLircClient.start_event_loop: ws_connect succeeds, ws_do_auth starts
WsStartEventLoop ==
    /\ AtStart
    /\ use_ws
    /\ LET conn == NewHandle(wsOpen)
       IN /\ ws' = conn
          /\ wsOpen' = wsOpen \cup {conn}
    /\ recvStart' = now
    /\ authReply' = "none"
    /\ pc' = "ws_auth_required"
    /\ UNCHANGED <<exit_code, lirc_connected, lirc_retry, api_retry, delay,
                   api_connected, _lirc_sock, sockOpen>>
    /\ UNCHANGED <<config, _last_event_timestamp, rest_session, restOpen, ws_next_id,
                   msg_id, waitStart, now, history>>
    /\ raised' = "none"
    /\ UNCHANGED <<connect_log, api_fails, ndecided>>

\* ws_connect raises (OSError, InvalidHandshake, TimeoutError): not an APIError,
\* so the except Exception clause of main_loop takes it
WsConnectFail ==
    /\ AtStart
    /\ use_ws
    /\ ExceptException(1)
    /\ UNCHANGED <<config, _last_event_timestamp, sessions, ws_next_id, wait, now,
                   history, authReply>>
    /\ raised' = "ConnectError"
    /\ UNCHANGED <<connect_log, api_fails, ndecided>>

\* ------------------------------------------------------------ ws_do_auth
RecvOpen == now - recvStart < DEF_TIMEOUT

\* line 265: ws_recv_msg("auth_required"), then line 266: the auth message
WsAuthRequired(m) ==
    /\ pc = "ws_auth_required"
    /\ RecvOpen
    /\ recvStart' = now
    /\ IF m.type = "auth_required"
       THEN /\ last_sent' = [type |-> "auth", id |-> None, key |-> <<>>]
            /\ pc' = "ws_auth_reply"
       ELSE UNCHANGED <<last_sent, pc>>
    /\ UNCHANGED <<exit_code, lirc_connected, lirc_retry, api_retry, delay,
                   api_connected, _lirc_sock, sockOpen>>
    /\ UNCHANGED <<config, _last_event_timestamp, sessions, ws_next_id, msg_id,
                   waitStart, now, nread, nsent, event_log, event, authReply>>
    /\ UNCHANGED <<raised, connect_log, api_fails, ndecided>>

\* lines 269-274: the next message must be auth_ok
WsAuthReply_nocheck(m, jitter) ==
    /\ pc = "ws_auth_reply"
    /\ RecvOpen
    /\ authReply' = m.type
    /\ NoWait
    /\ api_connected' = TRUE
    /\ pc' = "get_event"
    /\ UNCHANGED <<exit_code, lirc_connected, lirc_retry, api_retry, delay,
                   _lirc_sock, sockOpen>>
    /\ UNCHANGED sessions
    /\ UNCHANGED <<config, _last_event_timestamp, ws_next_id, now, history>>
    /\ api_fails' = 0
    /\ UNCHANGED <<raised, connect_log, ndecided>>

WsAuthReply(m, jitter) ==
    /\ pc = "ws_auth_reply"
    /\ RecvOpen
    /\ authReply' = m.type
    /\ NoWait
    /\ IF m.type = "auth_ok"
       THEN /\ api_connected' = TRUE
            /\ pc' = "get_event"
            /\ UNCHANGED <<exit_code, lirc_connected, lirc_retry, api_retry, delay,
                           _lirc_sock, sockOpen>>
            /\ UNCHANGED sessions
       ELSE /\ MayFailApi
            /\ ExceptAPIError(jitter)
            /\ WithExit
    /\ UNCHANGED <<config, _last_event_timestamp, ws_next_id, now, history>>
    /\ IF m.type = "auth_ok"
       THEN api_fails' = 0 /\ UNCHANGED raised
       ELSE api_fails' = api_fails + 1 /\ raised' = "APIError"
    /\ UNCHANGED <<connect_log, ndecided>>


\* ------------------------------------------------------------ send_event
_min_repeat_time_ms == DEF_MIN_REPEAT_TIME_MS

\* line 93, at event_timestamp = t
event_timedelta_ms(t) == t - _last_event_timestamp

\* line 99: the repeated key is ignored
ignore_repeat_inclusive(event_bytes, t) ==
    repeat_flag(event_bytes) /\ event_timedelta_ms(t) <= _min_repeat_time_ms

ignore_repeat(event_bytes, t) ==
    repeat_flag(event_bytes) /\ event_timedelta_ms(t) < _min_repeat_time_ms

\* lines 104-106: the elapsed time that is logged
logged_delta_raw(t) == event_timedelta_ms(t)

logged_delta(t) == IF _last_event_timestamp = 0 THEN 0 ELSE event_timedelta_ms(t)

\* ------------------------------------------------------------ event_loop
\* lines 117-120: recv raises OSError
GetEventOSError ==
    /\ pc = "get_event"
    /\ ExceptLircDisconnected
    /\ WithExit
    /\ NoWait
    /\ UNCHANGED <<config, _last_event_timestamp, ws_next_id, now, history, authReply>>
    /\ raised' = "LircDisconnected"
    /\ UNCHANGED <<connect_log, api_fails, ndecided>>

\* lines 124-126: recv returns b"" (peer closed)
GetEventEmpty_continues ==
    /\ pc = "get_event"
    /\ event' = <<>>
    /\ UNCHANGED supervisor
    /\ UNCHANGED <<config, _last_event_timestamp, sessions, ws_next_id, wait, now,
                   nread, nsent, last_sent, event_log, authReply>>
    /\ UNCHANGED <<raised, connect_log, api_fails, ndecided>>

GetEventEmpty ==
    /\ pc = "get_event"
    /\ event' = <<>>
    /\ ExceptLircDisconnected
    /\ WithExit
    /\ NoWait
    /\ UNCHANGED <<config, _last_event_timestamp, ws_next_id, now, nread, nsent,
                   last_sent, event_log, authReply>>
    /\ raised' = "LircDisconnected"
    /\ UNCHANGED <<connect_log, api_fails, ndecided>>

\* lines 95-97: event_info[1] or event_info[2] raises IndexError
GetEventMalformed(e) ==
    /\ pc = "get_event"
    /\ nread < MaxReads
    /\ ~Parses(e)
    /\ event' = e
    /\ nread' = nread + 1
    /\ ExceptException(1)
    /\ WithExit
    /\ NoWait
    /\ UNCHANGED <<config, _last_event_timestamp, ws_next_id, now, nsent, last_sent,
                   event_log, authReply>>
    /\ raised' = "IndexError"
    /\ UNCHANGED <<connect_log, api_fails, ndecided>>

\* lines 99-102: the frame is ignored, the loop reads again
GetEventIgnored(e) ==
    /\ pc = "get_event"
    /\ nread < MaxReads
    /\ Parses(e)
    /\ ignore_repeat(e, now)
    /\ event' = e
    /\ nread' = nread + 1
    /\ UNCHANGED supervisor
    /\ UNCHANGED <<config, _last_event_timestamp, sessions, ws_next_id, wait, now,
                   nsent, last_sent, event_log, authReply>>
    /\ ndecided' = ndecided + 1
    /\ UNCHANGED <<raised, connect_log, api_fails>>

\* lines 104-108: the event is fired; send_upstream_event is called
\* (REST: session.post; websocket: ws_send_msg("fire_event", ...) up to ws.send)
GetEventFired(e) ==
    /\ pc = "get_event"
    /\ nread < MaxReads
    /\ Parses(e)
    /\ ~ignore_repeat(e, now)
    /\ event' = e
    /\ nread' = nread + 1
    /\ event_log' = [key |-> lirc_key(e), delta |-> logged_delta(now)]
    /\ _last_event_timestamp' = now
    /\ nsent' = nsent + 1
    /\ IF use_ws
       THEN /\ msg_id' = ws_next_id
            /\ ws_next_id' = ws_next_id + 1
            /\ last_sent' = [type |-> "fire_event", id |-> ws_next_id,
                             key |-> lirc_key(e)]
            /\ recvStart' = now
            /\ waitStart' = now
            /\ pc' = "ws_wait"
       ELSE /\ last_sent' = [type |-> "post", id |-> None, key |-> lirc_key(e)]
            /\ pc' = "rest_post"
            /\ UNCHANGED <<ws_next_id, wait>>
    /\ UNCHANGED <<exit_code, lirc_connected, lirc_retry, api_retry, delay,
                   api_connected, _lirc_sock, sockOpen>>
    /\ UNCHANGED <<config, sessions, now, authReply>>
    /\ ndecided' = ndecided + 1
    /\ UNCHANGED <<raised, connect_log, api_fails>>

\* ------------------------------- HaRestLircClient.send_upstream_event
\* lines 156-161: the POST returns a success status
RestPostOk ==
    /\ pc = "rest_post"
    /\ pc' = "get_event"
    /\ UNCHANGED <<exit_code, lirc_connected, lirc_retry, api_retry, delay,
                   api_connected, _lirc_sock, sockOpen>>
    /\ UNCHANGED <<config, _last_event_timestamp, sessions, ws_next_id, wait, now,
                   history, authReply>>
    /\ api_fails' = 0
    /\ UNCHANGED <<raised, connect_log, ndecided>>

\* lines 162-164: RequestException (no connection, or a status >= 400)
RestPostFail(jitter) ==
    /\ pc = "rest_post"
    /\ MayFailApi
    /\ ExceptAPIError(jitter)
    /\ WithExit
    /\ NoWait
    /\ UNCHANGED <<config, _last_event_timestamp, ws_next_id, now, history, authReply>>
    /\ raised' = "APIError"
    /\ api_fails' = api_fails + 1
    /\ UNCHANGED <<connect_log, ndecided>>

\* --------------------------------- HaWsLircClient.ws_send_msg, the wait
\* lines 238-247 with ws_recv_msg lines 197-206: a message arrives
WsResult(m) ==
    /\ pc = "ws_wait"
    /\ RecvOpen
    /\ IF m.type = "result" /\ m.id = msg_id
       THEN /\ NoWait
            /\ pc' = "get_event"
       ELSE /\ recvStart' = now
            /\ UNCHANGED <<msg_id, waitStart, pc>>
    /\ UNCHANGED <<exit_code, lirc_connected, lirc_retry, api_retry, delay,
                   api_connected, _lirc_sock, sockOpen>>
    /\ UNCHANGED <<config, _last_event_timestamp, sessions, ws_next_id, now, history,
                   authReply>>
    /\ api_fails' = IF m.type = "result" /\ m.id = msg_id THEN 0 ELSE api_fails
    /\ UNCHANGED <<raised, connect_log, ndecided>>

\* ws.recv(timeout=DEF_TIMEOUT) raises TimeoutError: neither ws_do_auth nor
\* send_upstream_event (except WebSocketException) turns it into an APIError
WsTimeout ==
    /\ pc \in InWsRecv
    /\ ~RecvOpen
    /\ ExceptException(1)
    /\ WithExit
    /\ NoWait
    /\ UNCHANGED <<config, _last_event_timestamp, ws_next_id, now, history, authReply>>
    /\ raised' = "TimeoutError"
    /\ UNCHANGED <<connect_log, api_fails, ndecided>>

\* ws.send or ws.recv raises ConnectionClosed (a WebSocketException):
\* an APIError in send_upstream_event (lines 259-261), uncaught in ws_do_auth
WsClosed(jitter) ==
    /\ pc \in InWsRecv
    /\ IF pc = "ws_wait"
       THEN MayFailApi /\ ExceptAPIError(jitter)
       ELSE ExceptException(1)
    /\ WithExit
    /\ NoWait
    /\ UNCHANGED <<config, _last_event_timestamp, ws_next_id, now, history, authReply>>
    /\ IF pc = "ws_wait"
       THEN raised' = "APIError" /\ api_fails' = api_fails + 1
       ELSE raised' = "ConnectionClosed" /\ UNCHANGED api_fails
    /\ UNCHANGED <<connect_log, ndecided>>

\* ------------------------------------------------ main_loop, APIError sleep
\* lines 341-343: the sleep ends, api_retry += 1, continue
ApiSleepDone_resends ==
    /\ pc = "api_sleep"
    /\ api_retry' = api_retry + 1
    /\ delay' = 0
    /\ pc' = "top"
    /\ nsent' = nsent + 1
    /\ UNCHANGED <<exit_code, lirc_connected, lirc_retry, api_connected, _lirc_sock,
                   sockOpen>>
    /\ UNCHANGED <<config, _last_event_timestamp, sessions, ws_next_id, wait, now,
                   nread, last_sent, event_log, event, authReply>>
    /\ UNCHANGED <<raised, connect_log, api_fails, ndecided>>

ApiSleepDone ==
    /\ pc = "api_sleep"
    /\ api_retry' = api_retry + 1
    /\ delay' = 0
    /\ pc' = "top"
    /\ UNCHANGED <<exit_code, lirc_connected, lirc_retry, api_connected, _lirc_sock,
                   sockOpen>>
    /\ UNCHANGED <<config, _last_event_timestamp, sessions, ws_next_id, wait, now,
                   history, authReply>>
    /\ UNCHANGED <<raised, connect_log, api_fails, ndecided>>

\* ------------------------------------------------------------- the clock
\* time passes while main_loop is blocked; a recv in progress ends at its timeout
Tick(d) ==
    /\ pc \in Blocking
    /\ now + d <= StartTime + MaxElapsed
    /\ IF pc \in InWsRecv
       THEN /\ RecvOpen
            /\ now' = Min(now + d, recvStart + DEF_TIMEOUT)
       ELSE now' = now + d
    /\ UNCHANGED supervisor
    /\ UNCHANGED <<config, _last_event_timestamp, sessions, ws_next_id, wait, history,
                   authReply>>
    /\ UNCHANGED <<raised, connect_log, api_fails, ndecided>>

\* --------------------------------------------------------------- signals
\* SIGTERM: sigterm_handler raises ExitApp (an Exception) wherever main_loop is;
\* main() exits 0.  Inside start_event_loop the with block and the except
\* Exception clause run; elsewhere nothing catches it before main().
SigTerm ==
    /\ pc # "terminated"
    /\ IF pc \in InSession
       THEN ExceptException(0) /\ WithExit
       ELSE Uncaught(0) /\ UNCHANGED sessions
    /\ NoWait
    /\ UNCHANGED <<config, _last_event_timestamp, ws_next_id, now, history, authReply>>
    /\ raised' = "ExitApp"
    /\ UNCHANGED <<connect_log, api_fails, ndecided>>

\* SIGINT: KeyboardInterrupt is no Exception, so no clause of main_loop catches
\* it; main() exits 255
SigInt ==
    /\ pc # "terminated"
    /\ Uncaught(255)
    /\ IF pc \in InSession THEN WithExit ELSE UNCHANGED sessions
    /\ NoWait
    /\ UNCHANGED <<config, _last_event_timestamp, ws_next_id, now, history, authReply>>
    /\ raised' = "KeyboardInterrupt"
    /\ UNCHANGED <<connect_log, api_fails, ndecided>>

\* ------------------------------------------------------ the specification
Next ==
    \/ ConnectOk
    \/ \E j \in JitterDraws : ConnectFail(j)
    \/ LircSleepDone
    \/ RestStartEventLoop
    \/ WsStartEventLoop
    \/ WsConnectFail
    \/ \E m \in WsMsgs : WsAuthRequired(m)
    \/ \E m \in WsMsgs, j \in JitterDraws : WsAuthReply(m, j)
    \/ GetEventOSError
    \/ GetEventEmpty
    \/ \E e \in Frames : GetEventMalformed(e)
    \/ \E e \in Frames : GetEventIgnored(e)
    \/ \E e \in Frames : GetEventFired(e)
    \/ RestPostOk
    \/ \E j \in JitterDraws : RestPostFail(j)
    \/ \E m \in WsMsgs : WsResult(m)
    \/ WsTimeout
    \/ \E j \in JitterDraws : WsClosed(j)
    \/ ApiSleepDone
    \/ \E d \in TimeSteps : Tick(d)
    \/ SigTerm
    \/ SigInt

Spec == Init /\ [][Next]_vars

\* time.sleep(lirc_delay) returns, and a connect that can succeed again and
\* again does succeed at some attempt
FairSpec ==
    /\ Spec
    /\ WF_vars(LircSleepDone)
    /\ SF_vars(ConnectOk)


\* ================================================================ claims
\* The frames of Frames that have a repeat-count and a key field, with the
\* fields as they are written in the frame (FTwo: those of its first frame).
WellFormed == {FPress, FRepeat, FTwo}
RepeatCountIsZero(f) == f \in {FPress, FTwo}
KeyP == <<"P">>

\* a step in which send_event processes a well-formed frame
FrameStep == nread' = nread + 1 /\ event' \in WellFormed

\* C1: a frame is suppressed (no upstream send, _last_event_timestamp
\* unchanged) if and only if its repeat count is not "0" and the time since
\* _last_event_timestamp is strictly below the minimum repeat time; in every
\* other case _last_event_timestamp becomes the arrival time and the key is
\* handed to the upstream transport.
C1_DebounceRule ==
    [][FrameStep =>
        IF ~RepeatCountIsZero(event')
           /\ now - _last_event_timestamp < DEF_MIN_REPEAT_TIME_MS
        THEN /\ _last_event_timestamp' = _last_event_timestamp
             /\ nsent' = nsent
             /\ last_sent' = last_sent
        ELSE /\ _last_event_timestamp' = now
             /\ nsent' = nsent + 1
             /\ last_sent'.key = KeyP]_vars

\* a repeat frame 500 ms after the last fired event has been suppressed
C1_Witness ==
    /\ pc = "get_event"
    /\ event = FRepeat
    /\ nread = 2
    /\ nsent = 1
    /\ now - _last_event_timestamp = 500

\* the steps of main_loop that handle an APIError: the except clause up to the
\* sleep, the end of the sleep, and the next call of start_event_loop
ApiErrorHandling ==
    \/ pc # "api_sleep" /\ pc' = "api_sleep"
    \/ pc = "api_sleep" /\ pc' = "top"
    \/ pc = "top" /\ lirc_connected /\ pc' \in InSession

\* C2: handling an upstream failure (APIError from a send or from the
\* streaming session start) leaves _last_event_timestamp unchanged, leaves the
\* source socket open with the same handle (no connect, no disconnect) and
\* leaves lirc_retry and lirc_connected unchanged.
C2_UpstreamFailureKeepsSource ==
    [][ApiErrorHandling =>
        /\ _last_event_timestamp' = _last_event_timestamp
        /\ _lirc_sock' = _lirc_sock
        /\ _lirc_sock # None
        /\ sockOpen' = sockOpen
        /\ sockOpen = {_lirc_sock}
        /\ lirc_retry' = lirc_retry
        /\ lirc_connected' /\ lirc_connected]_vars

\* the REST event loop runs again after a failed POST and its backoff
C2_Witness ==
    /\ ~use_ws
    /\ pc = "get_event"
    /\ api_retry >= 1
    /\ nsent >= 1
    /\ _lirc_sock # None

\* C3: no step taken while the source is disconnected, and no step that
\* disconnects or reconnects it, changes api_retry or _last_event_timestamp.
C3_SourceDisconnectKeepsUpstream ==
    [][(~lirc_connected \/ ~lirc_connected') =>
        /\ api_retry' = api_retry
        /\ _last_event_timestamp' = _last_event_timestamp]_vars

\* the source was lost after an event and an upstream failure, and a connect
\* attempt has failed: the counter and the timestamp are still there
C3_Witness ==
    /\ pc = "lirc_sleep"
    /\ lirc_retry >= 1
    /\ api_retry >= 1
    /\ _last_event_timestamp > 0

\* C4: the wait for the result of a fire_event ends when the result with the
\* same id arrives or when DEF_TIMEOUT has elapsed since the fire_event was
\* sent, whichever comes first, also when other messages arrive in between.
C4_WaitIsBounded ==
    pc = "ws_wait" => now - waitStart <= DEF_TIMEOUT

\* C5: if the message read after the auth message is not auth_ok, the session
\* start fails with APIError, the session is closed, no frame is read and no
\* fire_event is sent; the event loop runs only in sessions that read auth_ok.
C5_HandshakeRejects ==
    /\ [](use_ws /\ pc \in {"get_event", "ws_wait"} => authReply = "auth_ok")
    /\ [](authReply \notin {"none", "auth_ok"} => pc \notin InSession /\ ws \notin wsOpen)
    /\ [][(authReply = "none" /\ authReply' \notin {"none", "auth_ok"}) =>
            /\ pc = "ws_auth_reply"
            /\ pc' = "api_sleep"
            /\ ws' \notin wsOpen'
            /\ UNCHANGED <<nread, nsent, last_sent>>]_vars

\* the server answered the auth message with auth_invalid
C5_Witness ==
    /\ authReply = "auth_invalid"
    /\ pc = "api_sleep"
    /\ last_sent.type = "auth"

\* C6: when SIGTERM arrives in one of the blocking waits (the two backoff
\* sleeps, get_event, the wait for a streaming response), the source socket
\* has been released and every upstream session closed when the process exits.
C6_ShutdownReleases ==
    [][(pc \in {"lirc_sleep", "get_event", "ws_wait", "api_sleep"}
        /\ pc' = "terminated" /\ exit_code' = 0) =>
            /\ _lirc_sock' = None
            /\ sockOpen' = {}
            /\ wsOpen' = {}
            /\ restOpen' = {}]_vars

\* C7: a failure to reach the hub when the streaming session starts never
\* terminates the process (never exits with code 1).
C7_NoCrashOnUnreachableHub ==
    [][(AtStart /\ use_ws) => exit_code' # 1]_vars

\* C8: every backoff delay is between 0 and the ceiling.
C8_BackoffBounds ==
    pc \in {"lirc_sleep", "api_sleep"} =>
        0 <= delay /\ delay <= 1000 * max_reconnect_delay

\* the ceiling decides the delay: 2^retry is above it and the jitter is 0
C8_Witness ==
    /\ pc = "lirc_sleep"
    /\ lirc_retry >= 1
    /\ 1000 * Pow2(lirc_retry) > 1000 * max_reconnect_delay
    /\ delay = 1000 * max_reconnect_delay

\* C9: the first frame processed is fired whatever its repeat count and its
\* arrival time, and its elapsed time is logged as 0; once an event has been
\* fired _last_event_timestamp never has its initial value again, and every
\* later event is logged with the real elapsed time.
C9_FirstEvent ==
    /\ [](nsent >= 1 => _last_event_timestamp # 0)
    /\ [][FrameStep =>
            /\ nread = 0 => _last_event_timestamp = 0
            /\ _last_event_timestamp = 0 =>
                  /\ nsent' = nsent + 1
                  /\ _last_event_timestamp' = now
                  /\ last_sent'.key = KeyP
                  /\ event_log' = [key |-> KeyP, delta |-> 0]
            /\ (_last_event_timestamp # 0 /\ nsent' = nsent + 1) =>
                  event_log'.delta = now - _last_event_timestamp]_vars

\* the first frame was a repeat, arrived after a while, and was fired
C9_Witness ==
    /\ nread = 1
    /\ nsent = 1
    /\ event = FRepeat
    /\ now > StartTime
    /\ _last_event_timestamp = now
    /\ event_log = [key |-> KeyP, delta |-> 0]

\* C10: at most one source socket and at most one upstream session are open,
\* and an open socket or session is the one the client holds.
C10_AtMostOneOpen ==
    /\ Cardinality(sockOpen) <= 1
    /\ Cardinality(restOpen) + Cardinality(wsOpen) <= 1
    /\ sockOpen \subseteq {_lirc_sock}
    /\ restOpen \subseteq {rest_session}
    /\ wsOpen \subseteq {ws}

\* a streaming session opened after an upstream failure, on the same socket
C10_Witness ==
    /\ use_ws
    /\ pc = "get_event"
    /\ api_retry >= 1
    /\ Cardinality(sockOpen) = 1
    /\ Cardinality(wsOpen) = 1

\* the exceptions start_event_loop can raise that are neither LircDisconnected
\* nor APIError nor the result of a signal
FatalErrors == {"IndexError", "TimeoutError", "ConnectionClosed", "ConnectError"}
ShutdownRequests == {"ExitApp", "KeyboardInterrupt"}

\* C11: an exception of start_event_loop that is neither LircDisconnected nor
\* APIError is not retried: the step that raises it releases the source
\* socket, closes the upstream session and ends the process with exit code 1,
\* and nothing happens after that.  The process ends only by such an exception
\* or by a signal, never by LircDisconnected or APIError.
C11_FatalPath ==
    /\ [][raised' \in FatalErrors =>
            /\ pc \in InSession \/ AtStart
            /\ pc' = "terminated"
            /\ exit_code' = 1
            /\ _lirc_sock' = None
            /\ sockOpen' = {}
            /\ restOpen' = {}
            /\ wsOpen' = {}]_vars
    /\ [][pc = "terminated" => FALSE]_vars
    /\ [](pc = "terminated" <=> exit_code # -1)
    /\ [](pc = "terminated" => raised \in FatalErrors \cup ShutdownRequests)
    /\ [](exit_code = 1 <=> (pc = "terminated" /\ raised \in FatalErrors))

\* a frame without a key field ended the process in a streaming session that
\* had delivered an event before
C11_Witness ==
    /\ use_ws
    /\ pc = "terminated"
    /\ raised = "IndexError"
    /\ event = FShort
    /\ nread = 2
    /\ nsent = 1
    /\ exit_code = 1

\* C12: in a run of APIErrors with no delivered event and no successful
\* session start in between, api_retry is not reset: the k-th failure of the
\* run sleeps get_backoff_delay(k - 1, max_reconnect_delay), with either
\* transport.
C12_BackoffEscalates ==
    pc = "api_sleep" =>
        /\ api_retry = api_fails - 1
        /\ \E j \in JitterDraws :
              delay = get_backoff_delay(api_fails - 1, max_reconnect_delay, j)

\* C13: when a recv of the streaming transport times out (waiting for
\* auth_required, for the auth reply or for the result of a fire_event), the
\* failure is handled as an APIError: main_loop goes to the upstream backoff
\* sleep, the process does not exit and the source socket stays open.
C13_TimeoutIsRecoverable ==
    [][(pc \in InWsRecv /\ ~RecvOpen /\ raised' = "TimeoutError") =>
            /\ pc' = "api_sleep"
            /\ exit_code' = exit_code
            /\ _lirc_sock' = _lirc_sock
            /\ sockOpen' = sockOpen]_vars

\* C14: lirc_retry is 0 whenever the source is connected, so every run of
\* connect attempts starts at 0; a failed connect leaves the source
\* disconnected, logs at error level if lirc_retry is 0 and at debug level
\* otherwise, and sleeps get_backoff_delay(lirc_retry, max_reconnect_delay)
\* with the counter not yet incremented; the end of the sleep adds exactly 1
\* and goes back to the connect; a successful connect sets the counter to 0
\* and goes on to start_event_loop; the counter changes in no other step.
\* When connect attempts eventually succeed, a disconnected source is
\* eventually connected (unless a signal ends the process first).
C14_SourceConnectRetry ==
    /\ [](lirc_connected => lirc_retry = 0)
    /\ [][(pc = "top" /\ ~lirc_connected /\ pc' = "lirc_sleep") =>
            /\ ~lirc_connected'
            /\ _lirc_sock' = None
            /\ lirc_retry' = lirc_retry
            /\ connect_log' = IF lirc_retry = 0 THEN "error" ELSE "debug"
            /\ \E j \in JitterDraws :
                  delay' = get_backoff_delay(lirc_retry, max_reconnect_delay, j)]_vars
    /\ [][(pc = "lirc_sleep" /\ pc' \notin {"lirc_sleep", "terminated"}) =>
            /\ pc' = "top"
            /\ ~lirc_connected'
            /\ lirc_retry' = lirc_retry + 1]_vars
    /\ [][(~lirc_connected /\ lirc_connected') =>
            /\ pc = "top"
            /\ pc' = "start"
            /\ _lirc_sock' # None
            /\ connect_log' = "info"
            /\ lirc_retry' = 0]_vars
    /\ [][lirc_retry' # lirc_retry =>
            \/ pc = "lirc_sleep" /\ pc' = "top"
            \/ ~lirc_connected /\ lirc_connected']_vars
    /\ (pc = "top" /\ ~lirc_connected) ~> (lirc_connected \/ pc = "terminated")

\* the connect succeeded after a failed attempt and its sleep, before any
\* call of start_event_loop
C14_Witness ==
    /\ pc = "start"
    /\ raised = "none"
    /\ now > StartTime
    /\ lirc_connected
    /\ lirc_retry = 0
    /\ connect_log = "info"

\* C15: api_retry is set to 0 only by the except APIError clause, and only at
\* the first APIError after a success (api_connected is true and is cleared);
\* a delivered event or a successful session start does not change the
\* counter, and a further APIError with no success since the previous one
\* does not reset it.
C15_ResetPoint ==
    [][/\ (api_retry # 0 /\ api_retry' = 0) =>
              /\ pc' = "api_sleep"
              /\ raised' = "APIError"
              /\ api_connected /\ ~api_connected'
       /\ (pc \in {"rest_post", "ws_wait", "ws_auth_reply"} /\ pc' = "get_event") =>
              api_retry' = api_retry
       /\ (pc \in {"top", "start"} /\ pc' \in InSession) =>
              api_retry' = api_retry
       /\ (api_fails >= 1 /\ api_fails' = api_fails + 1) =>
              api_retry' = api_retry]_vars

\* C16: in every streaming session, also one opened after a reconnect, the
\* first fire_event carries id 1 and each later fire_event of the session an
\* id above the one before; the auth message carries no id and uses none up.
\* (The auth message is the first message of a session, so the last message
\* sent tells whether a fire_event is the first of its session.)
C16_CorrelationIds ==
    [][/\ (use_ws /\ nsent' = nsent + 1) =>
              /\ last_sent'.type = "fire_event"
              /\ last_sent'.id = msg_id'
              /\ IF last_sent.type = "auth"
                 THEN msg_id' = 1
                 ELSE last_sent.type = "fire_event" /\ msg_id' > last_sent.id
       /\ (pc = "ws_auth_required" /\ pc' = "ws_auth_reply") =>
              /\ last_sent' = [type |-> "auth", id |-> None, key |-> <<>>]
              /\ ws_next_id' = ws_next_id]_vars

\* C17: a read error and an empty read of the source socket both raise
\* LircDisconnected, and main_loop answers it in one way: the read is not
\* processed as a frame, the socket is released, the upstream session is
\* closed, the source is marked disconnected, and the next thing main_loop
\* does is a connect, which opens a fresh socket if it succeeds.  A read that
\* returned bytes never raises LircDisconnected.
C17_SourceDisconnected ==
    [][/\ (pc = "get_event" /\ event # <<>> /\ event' = <<>>) =>
              raised' = "LircDisconnected"
       /\ (pc = "get_event" /\ raised' = "LircDisconnected") =>
              /\ UNCHANGED <<nread, ndecided, nsent, last_sent, event_log,
                             _last_event_timestamp, exit_code>>
              /\ _lirc_sock # None
              /\ _lirc_sock' = None
              /\ sockOpen' = {}
              /\ wsOpen' = {}
              /\ restOpen' = {}
              /\ ~lirc_connected'
              /\ pc' = "top"
       /\ (pc = "top" /\ ~lirc_connected) =>
              /\ pc' \in {"start", "lirc_sleep", "terminated"}
              /\ pc' = "start" => lirc_connected' /\ sockOpen' = {_lirc_sock'}
       /\ nread' = nread + 1 =>
              raised' # "LircDisconnected" /\ lirc_connected']_vars

\* the peer closed the socket during a streaming session that had read a
\* frame before: the session is closed and main_loop is back at the connect
C17_Witness ==
    /\ use_ws
    /\ pc = "top"
    /\ raised = "LircDisconnected"
    /\ nread >= 1
    /\ event = <<>>
    /\ ws # None
    /\ wsOpen = {}
    /\ ~lirc_connected

\* C18: an upstream send (one POST or one fire_event message) happens only
\* in the step in which send_event accepts a frame just read, and exactly one
\* per accepted frame, carrying that frame's key; handling an APIError, the
\* backoff sleep and the restart of the event loop send nothing, so a failed
\* event is not sent again and no event is sent more than once.
C18_AtMostOnce ==
    /\ [](nsent <= ndecided /\ ndecided <= nread)
    /\ [][/\ nsent' # nsent =>
                /\ pc = "get_event"
                /\ nsent' = nsent + 1
                /\ nread' = nread + 1
                /\ ndecided' = ndecided + 1
                /\ last_sent'.type = IF use_ws THEN "fire_event" ELSE "post"
                /\ last_sent'.key = lirc_key(event')
          /\ (last_sent' # last_sent /\ last_sent'.type # "auth") =>
                nsent' = nsent + 1
          /\ (pc' = "api_sleep" \/ pc = "api_sleep") =>
                UNCHANGED <<nsent, last_sent, nread>>
          /\ (pc \in {"rest_post", "ws_wait"}) =>
                UNCHANGED <<nsent, last_sent, nread>>]_vars

\* the POST of the first event failed, the backoff is over and the event loop
\* reads again: the event has been sent once
C18_Witness ==
    /\ ~use_ws
    /\ pc = "get_event"
    /\ api_fails = 1
    /\ api_retry = 1
    /\ nread = 1
    /\ nsent = 1
    /\ last_sent.type = "post"

\* the frames in a read: each frame ends with a newline
RECURSIVE FramesIn(_)
FramesIn(event_bytes) ==
    IF event_bytes = <<>> THEN 0
    ELSE (IF Head(event_bytes) = "\n" THEN 1 ELSE 0) + FramesIn(Tail(event_bytes))

\* C19: every frame of a read is fired or ignored by send_event, each exactly
\* once, also when the read holds more than one frame: a read of well-formed
\* frames adds the number of its frames to the number of decisions taken.
C19_EveryFrameDecided ==
    [][(nread' = nread + 1 /\ event' \in WellFormed) =>
            ndecided' = ndecided + FramesIn(event')]_vars

\* the client holds an open socket
HoldsSocket == _lirc_sock # None /\ _lirc_sock \in sockOpen

\* C20: at the top of the loop of main_loop lirc_connected is true exactly
\* when the client holds an open socket; get_event is called, and a REST
\* session or a websocket is open, only while the source is connected.
C20_SourceConsistency ==
    /\ pc = "top" => (lirc_connected <=> HoldsSocket)
    /\ pc = "top" => (~lirc_connected <=> sockOpen = {})
    /\ pc = "get_event" => (lirc_connected /\ HoldsSocket)
    /\ pc \in InSession => (lirc_connected /\ HoldsSocket)
    /\ (restOpen # {} \/ wsOpen # {}) => (lirc_connected /\ HoldsSocket)

\* the top of the loop after a read error in a REST session that had sent an
\* event: the flag is false, the socket and the session are gone
C20_Witness ==
    /\ ~use_ws
    /\ pc = "top"
    /\ raised = "LircDisconnected"
    /\ nsent >= 1
    /\ ~lirc_connected
    /\ _lirc_sock = None
    /\ rest_session # None
    /\ restOpen = {}

=============================================================================
